---- MODULE Spec2Model ----
(***************************************************************************)
(* The local keypair store and the balance resolver of the pump.fun MCP    *)
(* server: utils.ts (getOrCreateKeypair, getSPLBalance), list-accounts.ts, *)
(* get-token-balance.ts, create-token.ts, buy-token.ts and sell-token.ts.  *)
(*                                                                         *)
(* Strings that the code inspects (file names, account names) are          *)
(* sequences of tokens: "mint-" and ".json" are the two substrings the     *)
(* code looks for, every other token is text that holds neither of them.   *)
(* A secret key (64 bytes in @solana/web3.js: 32 bytes of seed followed by *)
(* the 32 bytes of the public key derived from it) is the pair             *)
(* <<seed byte, public byte>>.                                             *)
(***************************************************************************)
EXTENDS Integers, Sequences, FiniteSets, TLC

\* Bounds of the model.
MaxKeys == 2        \* number of Keypair.generate() calls in one behaviour
MaxAmount == 2      \* largest token amount / SOL amount (in fee units) drawn

VARIABLES
    dirExists,      \* fs.existsSync(keysFolder)
    dir,            \* entries of keysFolder in readdir order: [file, data]
    writable,       \* the environment lets this process create directories and files
    nextKey,        \* seed of the next Keypair.generate() (random, so fresh)
    created,        \* ghost: <<name, publicKey>> of every Identity generated by getOrCreateKeypair
    startedEmpty,   \* ghost: the keys folder was missing or empty at the start
    last,           \* the last operation: its arguments and what it returned
    procs           \* getOrCreateKeypair in each process that shares the folder: [pc, name, keypair, ret]

vars == <<dirExists, dir, writable, nextKey, created, startedEmpty, last, procs>>

----------------------------------------------------------------------------
\* Strings

MINT_PREFIX == "mint-"
JSON_EXT == ".json"

\* file.startsWith("mint-")
StartsWithMint(file) == Len(file) > 0 /\ file[1] = MINT_PREFIX

\* file.endsWith(".json")
EndsWithJson(file) == Len(file) > 0 /\ file[Len(file)] = JSON_EXT

\* mutant: the extension is not removed
ReplaceNothing(file) == file

\* file.replace(".json", ""): String.prototype.replace with a string pattern
\* removes the FIRST occurrence only.
ReplaceJson(file) ==
    IF \E i \in 1..Len(file) : file[i] = JSON_EXT
    THEN LET i == CHOOSE k \in 1..Len(file) :
                    /\ file[k] = JSON_EXT
                    /\ \A j \in 1..(k - 1) : file[j] /= JSON_EXT
         IN  SubSeq(file, 1, i - 1) \o SubSeq(file, i + 1, Len(file))
    ELSE file

\* path.join(keysFolder, `${name}.json`)
KeypairPath(name) == name \o <<JSON_EXT>>

----------------------------------------------------------------------------
\* Keys (@solana/web3.js Keypair, as the code uses it)

\* the public key byte derived from a seed byte (ed25519 getPublicKey)
DerivePublic(seed) == (5 * seed + 1) % 256

\* Keypair.generate() with the random seed `seed`
KeypairGenerate(seed) ==
    [publicKey |-> DerivePublic(seed), secretKey |-> <<seed, DerivePublic(seed)>>]

\* publicKey.toString(): base58, injective, no "." and no "-" in its alphabet
Base58(publicKey) == "K" \o ToString(publicKey)

\* mutant: JSON.stringify(keypair.secretKey), which writes the typed array as
\* an object {"0": .., "1": ..}
StringifyTypedArray(bytes) == [t |-> "obj", v |-> bytes]

\* JSON.stringify(Array.from(keypair.secretKey)) / safeStringify of the same
StringifyBytes(bytes) == [t |-> "arr", v |-> bytes]

\* JSON.parse(text) throws a SyntaxError
JsonParseThrows(data) == data.t = "text"

\* new Uint8Array(JSON.parse(text)): an array is converted element by element
\* modulo 256, a number n gives n zero bytes, an object that is no array
\* gives no bytes
Uint8Array(data) ==
    IF data.t = "arr"
    THEN [i \in 1..Len(data.v) |-> data.v[i] % 256]
    ELSE IF data.t = "num"
    THEN [i \in 1..data.v[1] |-> 0]
    ELSE <<>>

\* Keypair.fromSecretKey(bytes) throws: "bad secret key size" or
\* "provided secretKey is invalid"
FromSecretKeyThrows(bytes) ==
    \/ Len(bytes) /= Len(KeypairGenerate(0).secretKey)
    \/ bytes[2] /= DerivePublic(bytes[1])

\* Keypair.fromSecretKey(bytes): the public key is the second half of the bytes
FromSecretKey(bytes) == [publicKey |-> bytes[2], secretKey |-> bytes]

\* JSON.parse + new Uint8Array + Keypair.fromSecretKey on a file's text
LoadThrows(data) ==
    JsonParseThrows(data) \/ FromSecretKeyThrows(Uint8Array(data))

LoadKeypair(data) == FromSecretKey(Uint8Array(data))

NoKeypair == [publicKey |-> -1, secretKey |-> <<>>]

----------------------------------------------------------------------------
\* File system

\* index of `file` in the directory, 0 when there is none
IndexOf(d, file) ==
    IF \E i \in 1..Len(d) : d[i].file = file
    THEN CHOOSE i \in 1..Len(d) : d[i].file = file
    ELSE 0

\* fs.existsSync(path.join(keysFolder, file))
ExistsSync(d, file) == IndexOf(d, file) /= 0

\* fs.readFileSync(path.join(keysFolder, file), "utf-8")
ReadFileSync(d, file) == d[IndexOf(d, file)].data

\* fs.writeFileSync(path, data): replaces the contents of an existing file,
\* else makes a new directory entry, which readdir reports at position pos
WriteFileSync(d, file, data, pos) ==
    IF ExistsSync(d, file)
    THEN [d EXCEPT ![IndexOf(d, file)].data = data]
    ELSE SubSeq(d, 1, pos - 1) \o <<[file |-> file, data |-> data]>>
            \o SubSeq(d, pos, Len(d))

\* fs.readdirSync(keysFolder)
ReaddirSync(d) == [i \in 1..Len(d) |-> d[i].file]

\* the store as the operations pass it along
Store(exists, d, next) == [exists |-> exists, dir |-> d, next |-> next]

CurrentStore == Store(dirExists, dir, nextKey)

----------------------------------------------------------------------------
\* utils.ts: getOrCreateKeypair(keysFolder, name)
\* The result: threw (the error is logged and rethrown), keypair, generated
\* (Keypair.generate() ran), the store after the call, and found (a ghost:
\* what the call met at the key file's path).

Found(d, path) ==
    IF ~ExistsSync(d, path) THEN "absent"
    ELSE IF LoadThrows(ReadFileSync(d, path)) THEN "corrupt"
    ELSE "valid"

\* mutants: a key file that does not load is treated as a missing one, and a
\* fresh key is returned; it replaces the file (overwrite) or not
GetOrCreateKeypairOnCorrupt(s, name, pos, overwrite) ==
    LET path == KeypairPath(name)
        fail == [threw |-> TRUE, keypair |-> NoKeypair, generated |-> FALSE,
                 store |-> s, found |-> Found(s.dir, path)]
    IN  IF ~s.exists /\ ~writable
        THEN fail
        ELSE LET s1 == [s EXCEPT !.exists = TRUE]
             IN  IF ExistsSync(s1.dir, path) /\ ~LoadThrows(ReadFileSync(s1.dir, path))
                 THEN [fail EXCEPT !.threw = FALSE, !.store = s1,
                       !.keypair = LoadKeypair(ReadFileSync(s1.dir, path))]
                 ELSE LET keypair == KeypairGenerate(s1.next)
                          s2 == [s1 EXCEPT !.next = s1.next + 1]
                      IN  IF ~writable
                          THEN [fail EXCEPT !.store = s2]
                          ELSE [fail EXCEPT !.threw = FALSE, !.keypair = keypair,
                                !.generated = TRUE,
                                !.store = IF ExistsSync(s1.dir, path) /\ ~overwrite
                                          THEN s2
                                          ELSE [s2 EXCEPT !.dir = WriteFileSync(
                                                s1.dir, path,
                                                StringifyBytes(keypair.secretKey), pos)]]

\* mutant: a key generated for a name without file is returned and not
\* written (nor is the folder created)
GetOrCreateKeypairInMemory(s, name, pos) ==
    LET path == KeypairPath(name) IN
    IF s.exists /\ ExistsSync(s.dir, path)
    THEN [threw |-> LoadThrows(ReadFileSync(s.dir, path)),
          keypair |-> IF LoadThrows(ReadFileSync(s.dir, path)) THEN NoKeypair
                      ELSE LoadKeypair(ReadFileSync(s.dir, path)),
          generated |-> FALSE, store |-> s, found |-> Found(s.dir, path)]
    ELSE [threw |-> FALSE, keypair |-> KeypairGenerate(s.next), generated |-> TRUE,
          store |-> [s EXCEPT !.next = s.next + 1], found |-> Found(s.dir, path)]

\* mutant: the existence check does not see the key file (as when it was made
\* before an await and the file written after it): every call generates a key
\* and writes it over the file
GetOrCreateKeypairUnseen(s, name, pos) ==
    LET path == KeypairPath(name)
        keypair == KeypairGenerate(s.next)
    IN  IF ~writable
        THEN [threw |-> TRUE, keypair |-> NoKeypair, generated |-> FALSE,
              store |-> s, found |-> Found(s.dir, path)]
        ELSE [threw |-> FALSE, keypair |-> keypair, generated |-> TRUE,
              store |-> [s EXCEPT !.exists = TRUE, !.next = s.next + 1,
                                  !.dir = WriteFileSync(s.dir, path,
                                              StringifyBytes(keypair.secretKey), pos)],
              found |-> Found(s.dir, path)]

GetOrCreateKeypairRegenerates(s, name, pos) ==
    GetOrCreateKeypairOnCorrupt(s, name, pos, TRUE)

GetOrCreateKeypairFallsBack(s, name, pos) ==
    GetOrCreateKeypairOnCorrupt(s, name, pos, FALSE)

GetOrCreateKeypair(s, name, pos) ==
    LET path == KeypairPath(name)
        fail == [threw |-> TRUE, keypair |-> NoKeypair, generated |-> FALSE,
                 store |-> s, found |-> Found(s.dir, path)]
    IN  IF ~s.exists /\ ~writable
        THEN fail                                   \* mkdirSync throws
        ELSE LET s1 == [s EXCEPT !.exists = TRUE]
             IN  IF ExistsSync(s1.dir, path)
                 THEN IF LoadThrows(ReadFileSync(s1.dir, path))
                      THEN [fail EXCEPT !.store = s1]
                      ELSE [fail EXCEPT !.threw = FALSE, !.store = s1,
                            !.keypair = LoadKeypair(ReadFileSync(s1.dir, path))]
                 ELSE LET keypair == KeypairGenerate(s1.next)
                          s2 == [s1 EXCEPT !.next = s1.next + 1]
                      IN  IF ~writable
                          THEN [fail EXCEPT !.store = s2]   \* writeFileSync throws
                          ELSE [fail EXCEPT !.threw = FALSE, !.keypair = keypair,
                                !.generated = TRUE,
                                !.store = [s2 EXCEPT !.dir = WriteFileSync(
                                    s1.dir, path, StringifyBytes(keypair.secretKey), pos)]]

\* the ghost record of generated identities
Created(r, name) ==
    IF r.generated /\ ~r.threw
    THEN created \cup {<<name, Base58(r.keypair.publicKey)>>}
    ELSE created

----------------------------------------------------------------------------
\* Inputs

\* account names a caller passes (accountName: z.string(), no validation)
Names == {<<"a">>, <<MINT_PREFIX, "a">>, <<"a", JSON_EXT, "b">>}

\* tokenAddress: a well-formed mint address, or text new PublicKey() rejects
TokenAddresses == {"MintA", "bad"}

\* new PublicKey(tokenAddress) throws
PublicKeyThrows(tokenAddress) == tokenAddress = "bad"

\* connection.getParsedTokenAccountsByOwner(owner, {mint}): it throws, or it
\* gives the uiAmount of every token account of the owner for the mint.
\* value holds the accounts there are on chain, also when the call throws
\* (the caller then never sees them).
Query(threw, amounts) == [threw |-> threw, value |-> amounts]

TokenQueries ==
    {Query(TRUE, <<>>), Query(TRUE, <<MaxAmount>>)} \cup
    {Query(FALSE, a) : a \in UNION {[1..k -> 0..MaxAmount] : k \in 0..2}}

\* the queries drawn inside a trade: at most one token account
TradeQueries ==
    {Query(TRUE, <<>>), Query(TRUE, <<MaxAmount>>), Query(FALSE, <<>>),
     Query(FALSE, <<0>>), Query(FALSE, <<1>>), Query(FALSE, <<MaxAmount>>)}

\* what the owner holds of the mint: the amounts of all the accounts
Held(q) ==
    IF Len(q.value) = 0 THEN 0
    ELSE IF Len(q.value) = 1 THEN q.value[1]
    ELSE q.value[1] + q.value[2]

\* where readdir reports a new directory entry: the order is the file
\* system's; a new entry comes first or last
InsertPositions(d, file) ==
    IF ExistsSync(d, file) THEN {1} ELSE {1, Len(d) + 1}

\* the keys folder at the start: missing or empty, or left by earlier runs and
\* by the user (valid, corrupt and foreign files)
ValidFile(name, seed) ==
    [file |-> KeypairPath(name), data |-> StringifyBytes(KeypairGenerate(seed).secretKey)]

InitDirs ==
    { <<>>,
      \* a file that is no JSON, and a valid key file
      << [file |-> KeypairPath(<<"b">>), data |-> [t |-> "text", v |-> <<>>]],
         ValidFile(<<"a">>, 100) >>,
      \* an array of the wrong length, a mint key file, a file with no extension
      << [file |-> KeypairPath(<<"a">>), data |-> [t |-> "arr", v |-> <<100>>]],
         ValidFile(<<MINT_PREFIX, Base58(DerivePublic(101))>>, 101),
         [file |-> <<"notes">>, data |-> [t |-> "text", v |-> <<>>]] >>,
      \* numbers outside 0..255 that wrap to a valid key, a public half that
      \* does not match the seed, a JSON number
      << [file |-> KeypairPath(<<"a">>),
          data |-> [t |-> "arr", v |-> <<256 + 102, DerivePublic(102) - 256>>]],
         [file |-> KeypairPath(<<"a", JSON_EXT, "b">>),
          data |-> [t |-> "arr", v |-> <<103, DerivePublic(103) + 1>>]],
         [file |-> KeypairPath(<<"c">>), data |-> [t |-> "num", v |-> <<2>>]] >> }

----------------------------------------------------------------------------
\* utils.ts: getSPLBalance(connection, mint, owner): number | null

Null == [null |-> TRUE, n |-> 0]
Num(n) == [null |-> FALSE, n |-> n]

\* mutant: the amounts of all the accounts are added up
GetSPLBalanceSum(q) ==
    IF q.threw THEN Null
    ELSE IF Len(q.value) = 0 THEN Null
    ELSE IF Len(q.value) = 1 THEN Num(q.value[1])
    ELSE Num(q.value[1] + q.value[2])

\* mutant: the catch reports a balance of 0
GetSPLBalanceZeroOnError(q) ==
    IF q.threw THEN Num(0)
    ELSE IF Len(q.value) = 0 THEN Null
    ELSE Num(q.value[1])

GetSPLBalance(q) ==
    IF q.threw THEN Null                      \* caught, logged
    ELSE IF Len(q.value) = 0 THEN Null
    ELSE Num(q.value[1])

\* JavaScript `x || 0` on a number | null
OrZero(b) == IF b.null THEN 0 ELSE b.n

----------------------------------------------------------------------------
\* list-accounts.ts: listAccounts()

\* the entry of one candidate file (`file` is a ghost: the file it comes from)
AccountEntry(d, file) ==
    [name |-> ReplaceJson(file),
     publicKey |-> IF LoadThrows(ReadFileSync(d, file))
                   THEN "Error reading keypair"
                   ELSE Base58(LoadKeypair(ReadFileSync(d, file)).publicKey),
     file |-> file]

\* mutant: the filter without the reserved prefix
IsJsonFile(file) == EndsWithJson(file)

\* files.filter(...)
IsCandidate(file) == ~StartsWithMint(file) /\ EndsWithJson(file)

\* files.filter(...).map(...)
AccountsOf(d) ==
    LET files == SelectSeq(ReaddirSync(d), IsCandidate)
    IN  [i \in 1..Len(files) |-> AccountEntry(d, files[i])]

\* mutant: the files that do not load are removed from the folder
ListAccountsResultPrunes(s) ==
    LET Loads(x) == ~(IsCandidate(x.file) /\ LoadThrows(x.data)) IN
    IF ~s.exists
    THEN [store |-> [s EXCEPT !.exists = TRUE],
          ret |-> [success |-> TRUE, error |-> "",
                   message |-> "No accounts found. Keys folder created", accounts |-> <<>>]]
    ELSE [store |-> [s EXCEPT !.dir = SelectSeq(s.dir, Loads)],
          ret |-> [success |-> TRUE, error |-> "",
                   message |-> IF Len(AccountsOf(s.dir)) = 0
                               THEN "No accounts found" ELSE "Accounts in",
                   accounts |-> AccountsOf(s.dir)]]

\* mutant: a missing keys folder is reported as empty and not created
ListAccountsResultNoMkdir(s) ==
    [store |-> s,
     ret |-> [success |-> TRUE, error |-> "",
              message |-> IF Len(AccountsOf(s.dir)) = 0
                          THEN "No accounts found" ELSE "Accounts in",
              accounts |-> AccountsOf(s.dir)]]

ListAccountsResult(s) ==
    IF ~s.exists
    THEN IF writable
         THEN [store |-> [s EXCEPT !.exists = TRUE],
               ret |-> [success |-> TRUE, error |-> "",
                        message |-> "No accounts found. Keys folder created", accounts |-> <<>>]]
         ELSE [store |-> s,
               ret |-> [success |-> FALSE, error |-> "Error creating keys folder",
                        message |-> "", accounts |-> <<>>]]
    ELSE [store |-> s,
          ret |-> [success |-> TRUE, error |-> "",
                   message |-> IF Len(AccountsOf(s.dir)) = 0
                               THEN "No accounts found" ELSE "Accounts in",
                   accounts |-> AccountsOf(s.dir)]]

----------------------------------------------------------------------------
\* The network and the SDK (external collaborators): what a call can give

\* connection.getBalance(publicKey), in units of 0.001 SOL: it throws or
\* gives the balance
SolRead(threw, balance) == [threw |-> threw, balance |-> balance]

BUY_FEE_RESERVE == 1        \* 0.001 * LAMPORTS_PER_SOL
CREATE_FEE_RESERVE == 3     \* 0.003 * LAMPORTS_PER_SOL

SolReads ==
    {SolRead(TRUE, 0), SolRead(FALSE, 0), SolRead(FALSE, BUY_FEE_RESERVE + 1),
     SolRead(FALSE, MaxAmount + CREATE_FEE_RESERVE)}

\* sdk.buy / sdk.sell / sdk.createAndBuy: {success: true, signature},
\* {success: false, error} with a text ("fail") or an error object
\* ("failObject") as error, or an exception
SdkOutcomes == {"ok", "fail", "failObject", "throw"}

\* result.error of the SDK when it is an object and not a text
SDK_ERROR_OBJECT == "[object Error]"

\* JavaScript numbers: the amounts are whole numbers of the model's unit, or
\* NaN (what parseFloat gives for text that is no number)
NaN == -1000

IsNaN(x) == x = NaN

\* mutant: the comparison the other way round
Greater(a, b) == ~IsNaN(a) /\ ~IsNaN(b) /\ a > b

\* a < b: false when either side is NaN
Less(a, b) == ~IsNaN(a) /\ ~IsNaN(b) /\ a < b

\* a + b
Plus(a, b) == IF IsNaN(a) \/ IsNaN(b) THEN NaN ELSE a + b

\* BigInt(x) throws a RangeError when x is NaN
BigIntThrows(x) == IsNaN(x)

BIGINT_ERROR == "The number NaN cannot be converted to a BigInt because it is not an integer"

\* initializeSDK() throws when HELIUS_RPC_URL is not set
ENV_ERROR == "HELIUS_RPC_URL environment variable is not set"

----------------------------------------------------------------------------
\* get-token-balance.ts: getAccountBalance(accountName, tokenAddress)
\* It returns a text: the error text, or the lines of the balance report.

BalanceError(message) ==
    [error |-> message, account |-> "", sol |-> 0, token |-> ""]

\* mutant: `${tokenBalance ? tokenBalance : "No token account found"}`
TokenBalanceTextFalsy(b) ==
    IF b.null \/ b.n = 0 THEN "No token account found" ELSE ToString(b.n)

\* `${tokenBalance !== null ? tokenBalance : "No token account found"}`
TokenBalanceText(b) == IF b.null THEN "No token account found" ELSE ToString(b.n)

GetAccountBalanceResult(s, name, tokenAddress, rpcSet, sol, q) ==
    LET path == KeypairPath(name) IN
    IF ~rpcSet THEN BalanceError(ENV_ERROR)
    ELSE IF ~(s.exists /\ ExistsSync(s.dir, path))
    THEN BalanceError("Account file not found")
    ELSE IF LoadThrows(ReadFileSync(s.dir, path))
    THEN BalanceError("key file does not load")
    ELSE IF sol.threw THEN BalanceError("network")
    ELSE IF tokenAddress /= "" /\ PublicKeyThrows(tokenAddress)
    THEN BalanceError("Invalid public key input")
    ELSE [error |-> "",
          account |-> Base58(LoadKeypair(ReadFileSync(s.dir, path)).publicKey),
          sol |-> sol.balance,
          token |-> IF tokenAddress = "" THEN ""
                    ELSE TokenBalanceText(GetSPLBalance(q))]

----------------------------------------------------------------------------
\* The trades. Each result: the store after the call, gen (what
\* getOrCreateKeypair did), ret (the object returned), stage (how far the
\* handler got), sdkCalled and submitted (ghosts: the SDK trade call was made,
\* and the amount it was given).

NoGen == [threw |-> TRUE, keypair |-> NoKeypair, generated |-> FALSE, found |-> "unreached"]

Outcome(s, gen, ret, stage, sdkCalled, submitted) ==
    [store |-> s, gen |-> gen, ret |-> ret, stage |-> stage,
     sdkCalled |-> sdkCalled, submitted |-> submitted]

\* an error thrown by getOrCreateKeypair, as error.message gives it
KEYPAIR_ERROR == "keypair error"

\* buy-token.ts: buyToken(tokenAddress, buyAmount, accountName)
BuyFailure(message) ==
    [success |-> FALSE, error |-> message, amountSpent |-> 0,
     tokensPurchased |-> 0, newBalance |-> 0]

BuyTokenResult(s, name, buyAmount, tokenAddress, e) ==
    IF ~e.rpcSet
    THEN Outcome(s, NoGen, BuyFailure(ENV_ERROR), "env", FALSE, 0)
    ELSE IF ~s.exists /\ ~writable
    THEN Outcome(s, NoGen, BuyFailure("Error creating keys folder"), "mkdir", FALSE, 0)
    ELSE
    LET r == GetOrCreateKeypair([s EXCEPT !.exists = TRUE], name, e.pos) IN
    IF r.threw
    THEN Outcome(r.store, r, BuyFailure(KEYPAIR_ERROR), "keypair", FALSE, 0)
    ELSE IF e.sol.threw
    THEN Outcome(r.store, r, BuyFailure("network"), "balance", FALSE, 0)
    ELSE IF Less(e.sol.balance, Plus(buyAmount, BUY_FEE_RESERVE))
    THEN Outcome(r.store, r, BuyFailure("Insufficient SOL balance"), "funds", FALSE, 0)
    ELSE IF PublicKeyThrows(tokenAddress)
    THEN Outcome(r.store, r, BuyFailure("Invalid public key input"), "address", FALSE, 0)
    ELSE
    LET initialTokenBalance == OrZero(GetSPLBalance(e.q1)) IN
    IF BigIntThrows(buyAmount)
    THEN Outcome(r.store, r, BuyFailure(BIGINT_ERROR), "bigint", FALSE, 0)
    ELSE IF e.sdk = "throw"
    THEN Outcome(r.store, r, BuyFailure("sdk threw"), "sdk", TRUE, buyAmount)
    ELSE IF e.sdk \in {"fail", "failObject"}
    THEN Outcome(r.store, r, BuyFailure("sdk error"), "sdk", TRUE, buyAmount)
    ELSE
    LET newTokenBalance == OrZero(GetSPLBalance(e.q2)) IN
    Outcome(r.store, r,
            [success |-> TRUE, error |-> "", amountSpent |-> buyAmount,
             tokensPurchased |-> newTokenBalance - initialTokenBalance,
             newBalance |-> newTokenBalance],
            "done", TRUE, buyAmount)

\* sell-token.ts: sellToken(tokenAddress, sellAmount, accountName)
SellFailure(message) ==
    [success |-> FALSE, error |-> message, tokensSold |-> 0,
     solReceived |-> 0, newTokenBalance |-> 0]

\* Math.min(a, b)
Min(a, b) == IF IsNaN(a) \/ IsNaN(b) THEN NaN ELSE IF a < b THEN a ELSE b

\* mutant: only the absent balance stops the sale
NoTokensNull(tokenBalance) == tokenBalance.null

\* !tokenBalance || tokenBalance === 0: null and 0 are the falsy balances
NoTokens(tokenBalance) == tokenBalance.null \/ tokenBalance.n = 0

SellTokenResult(s, name, sellAmount, tokenAddress, e) ==
    IF ~e.rpcSet
    THEN Outcome(s, NoGen, SellFailure(ENV_ERROR), "env", FALSE, 0)
    ELSE IF ~s.exists /\ ~writable
    THEN Outcome(s, NoGen, SellFailure("Error creating keys folder"), "mkdir", FALSE, 0)
    ELSE
    LET r == GetOrCreateKeypair([s EXCEPT !.exists = TRUE], name, e.pos) IN
    IF r.threw
    THEN Outcome(r.store, r, SellFailure(KEYPAIR_ERROR), "keypair", FALSE, 0)
    ELSE IF PublicKeyThrows(tokenAddress)
    THEN Outcome(r.store, r, SellFailure("Invalid public key input"), "address", FALSE, 0)
    ELSE
    LET tokenBalance == GetSPLBalance(e.q1) IN
    IF NoTokens(tokenBalance)
    THEN Outcome(r.store, r, SellFailure("No tokens to sell"), "tokens", FALSE, 0)
    ELSE
    LET amountToSell == IF sellAmount = 0 THEN tokenBalance.n
                        ELSE Min(sellAmount, tokenBalance.n) IN
    IF e.sol.threw
    THEN Outcome(r.store, r, SellFailure("network"), "balance", FALSE, 0)
    ELSE IF BigIntThrows(amountToSell)
    THEN Outcome(r.store, r, SellFailure(BIGINT_ERROR), "bigint", FALSE, 0)
    ELSE IF e.sdk = "throw"
    THEN Outcome(r.store, r, SellFailure("sdk threw"), "sdk", TRUE, amountToSell)
    ELSE IF e.sdk \in {"fail", "failObject"}
    THEN Outcome(r.store, r, SellFailure("sdk error"), "sdk", TRUE, amountToSell)
    ELSE IF e.sol2.threw
    THEN Outcome(r.store, r, SellFailure("network"), "after", TRUE, amountToSell)
    ELSE
    Outcome(r.store, r,
            [success |-> TRUE, error |-> "", tokensSold |-> amountToSell,
             solReceived |-> e.sol2.balance - e.sol.balance,
             newTokenBalance |-> OrZero(GetSPLBalance(e.q2))],
            "done", TRUE, amountToSell)

\* create-token.ts: createToken(name, symbol, description, imageUrl,
\* initialBuyAmount, accountName); image is "" (no imageUrl), "ok" or
\* "missing" (fs.readFileSync(imageUrl) throws)
CreateFailure(message) ==
    [success |-> FALSE, error |-> message, tokenAddress |-> "", tokenBalance |-> Null]

\* path.join(keysFolder, `mint-${mint.publicKey.toString()}.json`)
MintPath(mint) == <<MINT_PREFIX, Base58(mint.publicKey), JSON_EXT>>

\* mutant: the mint key file is written before sdk.createAndBuy is called
CreateTokenResultWritesFirst(s, name, initialBuyAmount, image, e) ==
    IF ~e.rpcSet
    THEN Outcome(s, NoGen, CreateFailure(ENV_ERROR), "env", FALSE, 0)
    ELSE
    LET r == GetOrCreateKeypair(s, name, e.pos) IN
    IF r.threw
    THEN Outcome(r.store, r, CreateFailure(KEYPAIR_ERROR), "keypair", FALSE, 0)
    ELSE IF e.sol.threw
    THEN Outcome(r.store, r, CreateFailure("network"), "balance", FALSE, 0)
    ELSE IF Less(e.sol.balance, Plus(initialBuyAmount, CREATE_FEE_RESERVE))
    THEN Outcome(r.store, r, CreateFailure("Insufficient SOL balance"), "funds", FALSE, 0)
    ELSE
    LET mint == KeypairGenerate(r.store.next)
        s1 == [r.store EXCEPT !.next = r.store.next + 1]
        s2 == IF writable
              THEN [s1 EXCEPT !.dir = WriteFileSync(s1.dir, MintPath(mint),
                                          StringifyBytes(mint.secretKey), e.mintPos)]
              ELSE s1 IN
    IF image = "missing"
    THEN Outcome(s1, r, CreateFailure("image does not read"), "image", FALSE, 0)
    ELSE IF BigIntThrows(initialBuyAmount)
    THEN Outcome(s1, r, CreateFailure(BIGINT_ERROR), "bigint", FALSE, 0)
    ELSE IF e.sdk = "throw"
    THEN Outcome(s2, r, CreateFailure("sdk threw"), "sdk", TRUE, initialBuyAmount)
    ELSE IF e.sdk = "fail"
    THEN Outcome(s2, r, CreateFailure("sdk error"), "sdk", TRUE, initialBuyAmount)
    ELSE IF e.sdk = "failObject"
    THEN Outcome(s2, r, CreateFailure(SDK_ERROR_OBJECT), "sdk", TRUE, initialBuyAmount)
    ELSE IF ~writable
    THEN Outcome(s1, r, CreateFailure("mint key file does not write"), "write",
                 TRUE, initialBuyAmount)
    ELSE
    Outcome([s1 EXCEPT !.dir = WriteFileSync(s1.dir, MintPath(mint),
                                   StringifyBytes(mint.secretKey), e.mintPos)],
            r,
            [success |-> TRUE, error |-> "", tokenAddress |-> Base58(mint.publicKey),
             tokenBalance |-> GetSPLBalance(e.q1)],
            "done", TRUE, initialBuyAmount)

CreateTokenResult(s, name, initialBuyAmount, image, e) ==
    IF ~e.rpcSet
    THEN Outcome(s, NoGen, CreateFailure(ENV_ERROR), "env", FALSE, 0)
    ELSE
    LET r == GetOrCreateKeypair(s, name, e.pos) IN
    IF r.threw
    THEN Outcome(r.store, r, CreateFailure(KEYPAIR_ERROR), "keypair", FALSE, 0)
    ELSE IF e.sol.threw
    THEN Outcome(r.store, r, CreateFailure("network"), "balance", FALSE, 0)
    ELSE IF Less(e.sol.balance, Plus(initialBuyAmount, CREATE_FEE_RESERVE))
    THEN Outcome(r.store, r, CreateFailure("Insufficient SOL balance"), "funds", FALSE, 0)
    ELSE
    LET mint == KeypairGenerate(r.store.next)
        s1 == [r.store EXCEPT !.next = r.store.next + 1] IN
    IF image = "missing"
    THEN Outcome(s1, r, CreateFailure("image does not read"), "image", FALSE, 0)
    ELSE IF BigIntThrows(initialBuyAmount)
    THEN Outcome(s1, r, CreateFailure(BIGINT_ERROR), "bigint", FALSE, 0)
    ELSE IF e.sdk = "throw"
    THEN Outcome(s1, r, CreateFailure("sdk threw"), "sdk", TRUE, initialBuyAmount)
    ELSE IF e.sdk = "fail"
    THEN Outcome(s1, r, CreateFailure("sdk error"), "sdk", TRUE, initialBuyAmount)
    ELSE IF e.sdk = "failObject"
    THEN Outcome(s1, r, CreateFailure(SDK_ERROR_OBJECT), "sdk", TRUE, initialBuyAmount)
    ELSE IF ~writable
    THEN Outcome(s1, r, CreateFailure("mint key file does not write"), "write",
                 TRUE, initialBuyAmount)
    ELSE
    Outcome([s1 EXCEPT !.dir = WriteFileSync(s1.dir, MintPath(mint),
                                   StringifyBytes(mint.secretKey), e.mintPos)],
            r,
            [success |-> TRUE, error |-> "", tokenAddress |-> Base58(mint.publicKey),
             tokenBalance |-> GetSPLBalance(e.q1)],
            "done", TRUE, initialBuyAmount)

----------------------------------------------------------------------------
\* The state machine: one action per operation

\* the operating-system processes that share the keys folder (the server and
\* the standalone scripts each run getOrCreateKeypair on the same folder)
Procs == {1, 2}

\* a process outside getOrCreateKeypair, or an invocation slot of the server
\* with no tool running; ghost of a call: fresh (the name had no file when
\* the call began); op and mint are the tool an invocation runs and the mint
\* key createToken holds in memory
Idle ==
    [pc |-> "idle", name |-> <<>>, fresh |-> FALSE, keypair |-> NoKeypair,
     ret |-> [threw |-> FALSE, publicKey |-> ""], op |-> "none", mint |-> NoKeypair]

Init ==
    /\ dirExists \in BOOLEAN
    /\ dir \in InitDirs
    /\ (~dirExists => dir = <<>>)
    /\ writable \in BOOLEAN
    /\ nextKey = 1
    /\ created = {}
    /\ startedEmpty = (dir = <<>>)
    /\ last = [op |-> "none"]
    /\ procs = [p \in Procs |-> Idle]

\* what every operation leaves behind: the store and the call's record
Finish(s, cr, l) ==
    /\ s.next <= MaxKeys + 1
    /\ dirExists' = s.exists
    /\ dir' = s.dir
    /\ nextKey' = s.next
    /\ created' = cr
    /\ last' = l
    /\ UNCHANGED <<writable, startedEmpty, procs>>

\* a direct call of getOrCreateKeypair(keysFolder, name); ghosts of its
\* record: found, again (the call before this one was the same call) and
\* before (what that call returned)
KeypairReturn(r) ==
    [threw |-> r.threw,
     publicKey |-> IF r.threw THEN "" ELSE Base58(r.keypair.publicKey)]

GetOrCreate(name) ==
    \E pos \in InsertPositions(dir, KeypairPath(name)) :
        LET r == GetOrCreateKeypair(CurrentStore, name, pos)
            again == last.op = "getOrCreateKeypair" /\ last.name = name
        IN  Finish(r.store, Created(r, name),
                   [op |-> "getOrCreateKeypair", name |-> name,
                    ret |-> KeypairReturn(r), found |-> r.found, again |-> again,
                    before |-> IF again THEN last.ret ELSE KeypairReturn(NoGen)])

\* ghosts of the record: folderExisted (the keys folder was there at the
\* call), again (the call before was a listAccounts too)
ListAccounts ==
    LET r == ListAccountsResult(CurrentStore)
    IN  Finish(r.store, created,
               [op |-> "listAccounts", ret |-> r.ret, folderExisted |-> dirExists,
                again |-> last.op = "listAccounts"])

\* An operation draws what the network and the SDK answer only as far as the
\* handler gets; what it never asks for stays at these values.
NoSol == SolRead(TRUE, 0)
NoQuery == Query(TRUE, <<>>)

Env(rpcSet, pos, sol, q1, sdk, sol2, q2, mintPos) ==
    [rpcSet |-> rpcSet, pos |-> pos, sol |-> sol, q1 |-> q1, sdk |-> sdk,
     sol2 |-> sol2, q2 |-> q2, mintPos |-> mintPos]

\* ghosts of the call's record: query (what the network answered), balance
\* (what getSPLBalance returned) and rpcSet (HELIUS_RPC_URL was set)
GetAccountBalance(name, tokenAddress, X) ==
    LET R(rpcSet, sol, q) ==
            GetAccountBalanceResult(CurrentStore, name, tokenAddress, rpcSet, sol, q)
        Done(rpc, ret, q) ==
            Finish(CurrentStore, created,
                   [op |-> "getAccountBalance", name |-> name,
                    tokenAddress |-> tokenAddress, query |-> q,
                    balance |-> GetSPLBalance(q), ret |-> ret,
                    rpcSet |-> rpc])
    IN  \E rpcSet \in X.rpc :
        LET r0 == R(rpcSet, NoSol, NoQuery) IN
        IF r0.error /= "network"
        THEN Done(rpcSet, r0, NoQuery)
        ELSE \E sol \in X.sols :
            LET r1 == R(rpcSet, sol, NoQuery) IN
            IF r1.error /= "" \/ tokenAddress = ""
            THEN Done(rpcSet, r1, NoQuery)
            ELSE \E q \in X.queries :
                    LET r2 == R(rpcSet, sol, q) IN Done(rpcSet, r2, q)

\* ghosts of a trade's record: entry ("direct": a call of the function,
\* "main": the script or the tool), arg (the token address or the image), what
\* the network and the SDK answered (sol, q1, sdk, q2), rpcSet (HELIUS_RPC_URL
\* was set), sdkCalled, submitted, found and stage
TradeRecord(op, entry, name, amount, arg, t) ==
    [op |-> op, entry |-> entry, name |-> name, amount |-> amount, arg |-> arg, ret |-> t.out.ret,
     sdkCalled |-> t.out.sdkCalled, submitted |-> t.out.submitted,
     found |-> t.out.gen.found, stage |-> t.out.stage,
     sol |-> t.env.sol, q1 |-> t.env.q1, sdk |-> t.env.sdk, q2 |-> t.env.q2,
     rpcSet |-> t.env.rpcSet]

\* the SDK was not called
NoSdk == "none"

BuyToken(entry, name, buyAmount, tokenAddress, X) ==
    LET R(e) == [out |-> BuyTokenResult(CurrentStore, name, buyAmount, tokenAddress, e),
                 env |-> e]
        Done(t) == Finish(t.out.store, Created(t.out.gen, name),
                          TradeRecord("buyToken", entry, name, buyAmount, tokenAddress, t))
    IN  \E rpcSet \in X.rpc, pos \in InsertPositions(dir, KeypairPath(name)) :
        LET E(sol, q1, sdk, q2) == Env(rpcSet, pos, sol, q1, sdk, NoSol, q2, 1)
            t0 == R(E(NoSol, NoQuery, NoSdk, NoQuery))
        IN
        IF t0.out.stage /= "balance"
        THEN Done(t0)
        ELSE \E sol \in X.sols :
            LET t1 == R(E(sol, NoQuery, NoSdk, NoQuery)) IN
            IF t1.out.stage \notin {"bigint", "done"}
            THEN Done(t1)
            ELSE \E q1 \in X.queries :
                IF t1.out.stage = "bigint"
                THEN Done(R(E(sol, q1, NoSdk, NoQuery)))
                ELSE \E sdk \in X.sdks :
                    IF sdk /= "ok"
                    THEN Done(R(E(sol, q1, sdk, NoQuery)))
                    ELSE \E q2 \in {q \in X.queries : Held(q) >= Held(q1)} :
                            Done(R(E(sol, q1, sdk, q2)))

SellToken(entry, name, sellAmount, tokenAddress, X) ==
    LET R(e) == [out |-> SellTokenResult(CurrentStore, name, sellAmount, tokenAddress, e),
                 env |-> e]
        Done(t) == Finish(t.out.store, Created(t.out.gen, name),
                          TradeRecord("sellToken", entry, name, sellAmount, tokenAddress, t))
    IN  \E rpcSet \in X.rpc, pos \in InsertPositions(dir, KeypairPath(name)) :
        LET E(q1, sol, sdk, sol2, q2) == Env(rpcSet, pos, sol, q1, sdk, sol2, q2, 1)
            t0 == R(E(NoQuery, NoSol, NoSdk, NoSol, NoQuery))
        IN
        IF t0.out.stage /= "tokens"
        THEN Done(t0)
        ELSE \E q1 \in X.queries :
            LET t1 == R(E(q1, NoSol, NoSdk, NoSol, NoQuery)) IN
            IF t1.out.stage /= "balance"
            THEN Done(t1)
            ELSE \E sol \in X.sols :
                LET t2 == R(E(q1, sol, NoSdk, NoSol, NoQuery)) IN
                IF t2.out.stage /= "after"
                THEN Done(t2)
                ELSE \E sdk \in X.sdks :
                    IF sdk /= "ok"
                    THEN Done(R(E(q1, sol, sdk, NoSol, NoQuery)))
                    ELSE \E sol2 \in X.sols, q2 \in {q \in X.queries : Held(q) <= Held(q1)} :
                            Done(R(E(q1, sol, sdk, sol2, q2)))

CreateToken(entry, name, initialBuyAmount, image, X) ==
    LET R(e) == [out |-> CreateTokenResult(CurrentStore, name, initialBuyAmount, image, e),
                 env |-> e]
        Done(t) == Finish(t.out.store, Created(t.out.gen, name),
                          TradeRecord("createToken", entry, name, initialBuyAmount, image, t))
    IN  \E rpcSet \in X.rpc, pos \in InsertPositions(dir, KeypairPath(name)) :
        LET E(sol, sdk, mintPos, q1) ==
                Env(rpcSet, pos, sol, q1, sdk, NoSol, NoQuery, mintPos)
            t0 == R(E(NoSol, NoSdk, 1, NoQuery))
        IN
        IF t0.out.stage /= "balance"
        THEN Done(t0)
        ELSE \E sol \in X.sols :
            LET t1 == R(E(sol, NoSdk, 1, NoQuery)) IN
            IF t1.out.stage \notin {"write", "done"}
            THEN Done(t1)
            ELSE \E sdk \in X.sdks :
                LET t2 == R(E(sol, sdk, 1, NoQuery)) IN
                IF t2.out.stage /= "done"
                THEN Done(t2)
                ELSE \E mintPos \in InsertPositions(t0.out.store.dir, <<>>), q1 \in X.queries :
                        Done(R(E(sol, sdk, mintPos, q1)))

\* the amounts a caller passes: buyAmount / initialBuyAmount in units of
\* 0.001 SOL, sellAmount in tokens (0: sell all)
Amounts == 0..MaxAmount

\* ... and the amounts the type `number` lets through as well
TradeAmounts == {NaN, -1} \cup Amounts

Images == {"", "ok", "missing"}

\* What the network and the SDK may answer in a specification: whether
\* HELIUS_RPC_URL is set, the SOL balances, the token account queries and the
\* outcomes of the SDK call.
Answers(rpc, sols, queries, sdks) ==
    [rpc |-> rpc, sols |-> sols, queries |-> queries, sdks |-> sdks]

\* Spec is about the key store: every operation runs, against a network that
\* answers with the funds and the tokens a trade needs, or with none.
StoreAnswers ==
    Answers(BOOLEAN,
            {SolRead(FALSE, 0), SolRead(FALSE, MaxAmount + CREATE_FEE_RESERVE)},
            {Query(FALSE, <<MaxAmount>>)},
            {"ok", "fail"})

Next ==
    \/ \E name \in Names : GetOrCreate(name)
    \/ ListAccounts
    \/ \E name \in Names, tokenAddress \in {"MintA", ""} :
            GetAccountBalance(name, tokenAddress, StoreAnswers)
    \/ \E name \in Names : BuyToken("direct", name, 1, "MintA", StoreAnswers)
    \/ \E name \in Names : SellToken("direct", name, 0, "MintA", StoreAnswers)
    \/ \E name \in Names, image \in {"", "missing"} :
            CreateToken("direct", name, 1, image, StoreAnswers)

Spec == Init /\ [][Next]_vars

----------------------------------------------------------------------------
\* One request on the keys folder as it is found, through every entry point
\* and against every answer of the network and the SDK.

\* get-token-info.ts: getTokenInfo(tokenAddress); curve is what
\* sdk.getBondingCurveAccount gives: "account", "none" (null) or "throw".
\* raised: the exception leaves getTokenInfo; returns: "info" (the object
\* {tokenAddress, bondingCurveAccount, formattedSupply, pumpfunUrl}) or "null"
GetTokenInfoResult(rpcSet, tokenAddress, curve) ==
    IF ~rpcSet THEN [raised |-> TRUE, error |-> ENV_ERROR, returns |-> "nothing"]
    ELSE IF PublicKeyThrows(tokenAddress)
    THEN [raised |-> TRUE, error |-> "Invalid public key input", returns |-> "nothing"]
    ELSE IF curve = "throw"
    THEN [raised |-> TRUE, error |-> "network", returns |-> "nothing"]
    ELSE IF curve = "none"
    THEN [raised |-> FALSE, error |-> "", returns |-> "null"]
    ELSE [raised |-> FALSE, error |-> "", returns |-> "info"]

GetTokenInfo(tokenAddress) ==
    \E rpcSet \in BOOLEAN, curve \in {"account", "none", "throw"} :
        Finish(CurrentStore, created,
               [op |-> "getTokenInfo", tokenAddress |-> tokenAddress, curve |-> curve,
                rpcSet |-> rpcSet,
                ret |-> GetTokenInfoResult(rpcSet, tokenAddress, curve)])

\* main of the scripts and the schema of the tools: buyAmount and
\* initialBuyAmount are numbers of at least 0.0001 SOL (the least amount of
\* the model's unit that is), sellAmount a number of at least 0
MIN_BUY_AMOUNT == 1
MIN_SELL_AMOUNT == 0

\* the request is turned down before the function is called
Rejected(op, name, amount, arg, failure) ==
    Finish(CurrentStore, created,
           TradeRecord(op, "main", name, amount, arg,
                       [out |-> Outcome(CurrentStore, NoGen, failure, "rejected", FALSE, 0),
                        env |-> Env(TRUE, 1, NoSol, NoQuery, NoSdk, NoSol, NoQuery, 1)]))

BuyMain(name, buyAmount, tokenAddress, X) ==
    IF IsNaN(buyAmount) \/ buyAmount < MIN_BUY_AMOUNT
    THEN Rejected("buyToken", name, buyAmount, tokenAddress,
                  BuyFailure("Buy amount must be a number greater than or equal to 0.0001"))
    ELSE BuyToken("main", name, buyAmount, tokenAddress, X)

SellMain(name, sellAmount, tokenAddress, X) ==
    IF IsNaN(sellAmount) \/ sellAmount < MIN_SELL_AMOUNT
    THEN Rejected("sellToken", name, sellAmount, tokenAddress,
                  SellFailure("Sell amount must be a non-negative number"))
    ELSE SellToken("main", name, sellAmount, tokenAddress, X)

CreateMain(name, initialBuyAmount, image, X) ==
    IF IsNaN(initialBuyAmount) \/ initialBuyAmount < MIN_BUY_AMOUNT
    THEN Rejected("createToken", name, initialBuyAmount, image,
                  CreateFailure("Initial buy amount must be a number greater than or equal to 0.0001"))
    ELSE CreateToken("main", name, initialBuyAmount, image, X)

TradeAnswers == Answers(BOOLEAN, SolReads, TradeQueries, SdkOutcomes)

\* What the caller of an operation gets, by the operation's record: "result"
\* (an object with success: buyToken, sellToken, createToken, listAccounts),
\* "text" (getAccountBalance: Promise<string>), "info" or "null"
\* (getTokenInfo), or "raised" (an exception leaves the operation)
Returns(l) ==
    IF l.op \in {"buyToken", "sellToken", "createToken", "listAccounts"} THEN "result"
    ELSE IF l.op = "getAccountBalance" THEN "text"
    ELSE IF l.ret.raised THEN "raised"
    ELSE l.ret.returns

\* no request was served yet
OneRequest == last.op = "none"

NextTrade ==
    \/ \E name \in Names, amount \in TradeAmounts, tokenAddress \in TokenAddresses :
            OneRequest /\ BuyToken("direct", name, amount, tokenAddress, TradeAnswers)
    \/ \E name \in Names, amount \in TradeAmounts, tokenAddress \in TokenAddresses :
            OneRequest /\ BuyMain(name, amount, tokenAddress, TradeAnswers)
    \/ \E name \in Names, amount \in TradeAmounts, tokenAddress \in TokenAddresses :
            OneRequest /\ SellToken("direct", name, amount, tokenAddress, TradeAnswers)
    \/ \E name \in Names, amount \in TradeAmounts, tokenAddress \in TokenAddresses :
            OneRequest /\ SellMain(name, amount, tokenAddress, TradeAnswers)
    \/ \E name \in Names, amount \in TradeAmounts, image \in Images :
            OneRequest /\ CreateToken("direct", name, amount, image, TradeAnswers)
    \/ \E name \in Names, amount \in TradeAmounts, image \in Images :
            OneRequest /\ CreateMain(name, amount, image, TradeAnswers)
    \/ \E tokenAddress \in TokenAddresses : OneRequest /\ GetTokenInfo(tokenAddress)
    \/ OneRequest /\ ListAccounts
    \/ \E name \in Names, tokenAddress \in TokenAddresses \cup {""} :
            OneRequest /\ GetAccountBalance(name, tokenAddress, TradeAnswers)

SpecTrade == Init /\ [][NextTrade]_vars

----------------------------------------------------------------------------
\* The balance resolver on its own: getSPLBalance and getAccountBalance
\* against every answer of the network, on the keys folder as it stands.

BalanceAnswers == Answers(BOOLEAN, SolReads, TokenQueries, SdkOutcomes)

\* a direct call of getSPLBalance(connection, mint, owner)
GetSPLBalanceCall ==
    \E q \in TokenQueries :
        Finish(CurrentStore, created,
               [op |-> "getSPLBalance", query |-> q, ret |-> GetSPLBalance(q)])

NextBalance ==
    \/ GetSPLBalanceCall
    \/ \E name \in Names, tokenAddress \in TokenAddresses \cup {""} :
            GetAccountBalance(name, tokenAddress, BalanceAnswers)

SpecBalance == Init /\ [][NextBalance]_vars

----------------------------------------------------------------------------
\* getOrCreateKeypair run by several processes on one keys folder, one file
\* system call at a step.

At(p, pc) == procs[p].pc = pc

\* what no step of getOrCreateKeypair touches
Rest == UNCHANGED <<writable, created, startedEmpty, last>>

Goto(p, pc) == procs' = [procs EXCEPT ![p].pc = pc]

Throw(p) ==
    procs' = [procs EXCEPT ![p].pc = "done",
                           ![p].ret = [threw |-> TRUE, publicKey |-> ""]]

Return(p, keypair) ==
    procs' = [procs EXCEPT ![p].pc = "done",
                           ![p].ret = [threw |-> FALSE,
                                       publicKey |-> Base58(keypair.publicKey)]]

\* the call
Call(p, name) ==
    /\ At(p, "idle")
    /\ procs' = [procs EXCEPT ![p].pc = "existsFolder", ![p].name = name,
                              ![p].fresh = ~ExistsSync(dir, KeypairPath(name))]
    /\ UNCHANGED <<dirExists, dir, nextKey>> /\ Rest

\* if (!fs.existsSync(keysFolder))
ExistsSyncFolder(p) ==
    /\ At(p, "existsFolder")
    /\ Goto(p, IF dirExists THEN "existsFile" ELSE "mkdir")
    /\ UNCHANGED <<dirExists, dir, nextKey>> /\ Rest

\* fs.mkdirSync(keysFolder, { recursive: true })
MkdirSync(p) ==
    /\ At(p, "mkdir")
    /\ IF writable \/ dirExists
       THEN dirExists' = TRUE /\ Goto(p, "existsFile")
       ELSE Throw(p) /\ UNCHANGED dirExists
    /\ UNCHANGED <<dir, nextKey>> /\ Rest

\* if (fs.existsSync(keypairPath))
ExistsSyncFile(p) ==
    /\ At(p, "existsFile")
    /\ Goto(p, IF ExistsSync(dir, KeypairPath(procs[p].name)) THEN "read" ELSE "generate")
    /\ UNCHANGED <<dirExists, dir, nextKey>> /\ Rest

\* JSON.parse(fs.readFileSync(keypairPath, "utf-8")), Keypair.fromSecretKey
ReadKeypair(p) ==
    /\ At(p, "read")
    /\ LET data == ReadFileSync(dir, KeypairPath(procs[p].name))
       IN  IF LoadThrows(data) THEN Throw(p) ELSE Return(p, LoadKeypair(data))
    /\ UNCHANGED <<dirExists, dir, nextKey>> /\ Rest

\* Keypair.generate()
Generate(p) ==
    /\ At(p, "generate")
    /\ nextKey <= MaxKeys
    /\ procs' = [procs EXCEPT ![p].pc = "open", ![p].keypair = KeypairGenerate(nextKey)]
    /\ nextKey' = nextKey + 1
    /\ UNCHANGED <<dirExists, dir>> /\ Rest

\* fs.writeFileSync opens the file for writing, which creates it or empties it
OpenKeyFile(p) ==
    /\ At(p, "open")
    /\ IF writable
       THEN /\ \E pos \in InsertPositions(dir, KeypairPath(procs[p].name)) :
                    dir' = WriteFileSync(dir, KeypairPath(procs[p].name),
                                         [t |-> "text", v |-> <<>>], pos)
            /\ Goto(p, "write")
       ELSE Throw(p) /\ UNCHANGED dir
    /\ UNCHANGED <<dirExists, nextKey>> /\ Rest

\* ... then writes JSON.stringify(Array.from(keypair.secretKey)); return keypair
WriteKeyFile(p) ==
    /\ At(p, "write")
    /\ dir' = WriteFileSync(dir, KeypairPath(procs[p].name),
                            StringifyBytes(procs[p].keypair.secretKey), 1)
    /\ Return(p, procs[p].keypair)
    /\ UNCHANGED <<dirExists, nextKey>> /\ Rest

NextRace ==
    \/ \E p \in Procs, name \in Names : Call(p, name)
    \/ \E p \in Procs : ExistsSyncFolder(p)
    \/ \E p \in Procs : MkdirSync(p)
    \/ \E p \in Procs : ExistsSyncFile(p)
    \/ \E p \in Procs : ReadKeypair(p)
    \/ \E p \in Procs : Generate(p)
    \/ \E p \in Procs : OpenKeyFile(p)
    \/ \E p \in Procs : WriteKeyFile(p)

SpecRace == Init /\ [][NextRace]_vars

----------------------------------------------------------------------------
\* One server process (server.tool handlers): the transport may dispatch a tool while
\* another is waiting, so two invocations of buy-token, sell-token and
\* create-token interleave, and only at their awaits. A step is what a
\* handler runs between two awaits; pc names the call an invocation awaits.
\* The server runs with HELIUS_RPC_URL set and well-formed arguments.

ServerTools == {"buyToken", "sellToken", "createToken"}

\* the account names the invocations pass
ServerNames == {<<"a">>, <<MINT_PREFIX, "a">>}

\* the awaits of each handler, in order
Awaits(op) ==
    IF op = "buyToken"
    THEN <<"getBalance", "getSPLBalance", "sdk", "getSPLBalanceAfter">>
    ELSE IF op = "sellToken"
    THEN <<"getSPLBalance", "getBalance", "sdk", "getBalanceAfter", "getSPLBalanceAfter">>
    ELSE <<"getBalance", "sdk", "getSPLBalanceAfter">>

\* the await after `pc`, or the return of the result
NextAwait(op, pc) ==
    LET i == CHOOSE k \in 1..Len(Awaits(op)) : Awaits(op)[k] = pc
    IN  IF i = Len(Awaits(op)) THEN "returned" ELSE Awaits(op)[i + 1]

\* the awaits whose answer can end the handler with success: false: a call
\* that throws, the funds check, "No tokens to sell", the SDK's failure
\* (getSPLBalance throws nothing, and buyToken goes on after it)
MayFail(op, pc) ==
    \/ pc \in {"getBalance", "sdk", "getBalanceAfter"}
    \/ op = "sellToken" /\ pc = "getSPLBalance"

Running(p) == procs[p].pc \notin {"idle", "returned"}

\* the handler returns its result, success or failure: the slot keeps the
\* name and what getOrCreateKeypair gave the invocation
Returned(p) ==
    [procs[p] EXCEPT !.pc = "returned", !.op = "none", !.fresh = FALSE,
                     !.mint = NoKeypair]

\* what no step of a handler touches
ServerRest == UNCHANGED <<writable, startedEmpty, last>>

\* the tool is called: the handler runs to its first await, and
\* getOrCreateKeypair, which has no await, runs whole inside this step
Invoke(p, op, name) ==
    /\ ~Running(p)
    /\ \E pos \in InsertPositions(dir, KeypairPath(name)) :
        LET r == GetOrCreateKeypair(CurrentStore, name, pos) IN
        /\ r.store.next <= MaxKeys + 1
        /\ dirExists' = r.store.exists
        /\ dir' = r.store.dir
        /\ nextKey' = r.store.next
        /\ created' = Created(r, name)
        /\ procs' = [procs EXCEPT ![p] =
                        IF r.threw
                        THEN [Idle EXCEPT !.pc = "returned", !.name = name,
                                          !.ret = KeypairReturn(r)]
                        ELSE [pc |-> Awaits(op)[1], name |-> name,
                              fresh |-> r.generated, keypair |-> r.keypair,
                              ret |-> KeypairReturn(r), op |-> op, mint |-> NoKeypair]]
    /\ ServerRest

\* an await of buyToken or sellToken, or the last of createToken, is
\* answered: the handler returns a failure or runs to its next await; it
\* touches no file
Resume(p, ok) ==
    /\ Running(p)
    /\ procs[p].op = "createToken" => procs[p].pc = "getSPLBalanceAfter"
    /\ ok \/ MayFail(procs[p].op, procs[p].pc)
    /\ procs' = [procs EXCEPT ![p] =
                    IF ok /\ NextAwait(procs[p].op, procs[p].pc) /= "returned"
                    THEN [procs[p] EXCEPT !.pc = NextAwait(procs[p].op, procs[p].pc)]
                    ELSE Returned(p)]
    /\ UNCHANGED <<dirExists, dir, nextKey, created>>
    /\ ServerRest

\* createToken after connection.getBalance: the funds check, Keypair.generate()
\* for the mint, the image read, and the call of sdk.createAndBuy
CreateAfterBalance(p, ok, image) ==
    /\ Running(p) /\ procs[p].op = "createToken" /\ procs[p].pc = "getBalance"
    /\ IF ~ok
       THEN /\ procs' = [procs EXCEPT ![p] = Returned(p)]
            /\ UNCHANGED nextKey
       ELSE /\ nextKey <= MaxKeys
            /\ nextKey' = nextKey + 1
            /\ procs' = [procs EXCEPT ![p] =
                            IF image = "missing" THEN Returned(p)
                            ELSE [procs[p] EXCEPT !.pc = "sdk",
                                                  !.mint = KeypairGenerate(nextKey)]]
    /\ UNCHANGED <<dirExists, dir, created>>
    /\ ServerRest

\* createToken after sdk.createAndBuy: the failure is returned, or the mint
\* key file is written and getSPLBalance called
CreateAfterSdk(p, ok) ==
    /\ Running(p) /\ procs[p].op = "createToken" /\ procs[p].pc = "sdk"
    /\ IF ok /\ writable
       THEN \E pos \in InsertPositions(dir, MintPath(procs[p].mint)) :
                /\ dir' = WriteFileSync(dir, MintPath(procs[p].mint),
                                        StringifyBytes(procs[p].mint.secretKey), pos)
                /\ procs' = [procs EXCEPT ![p].pc = "getSPLBalanceAfter"]
       ELSE /\ procs' = [procs EXCEPT ![p] = Returned(p)]
            /\ UNCHANGED dir
    /\ UNCHANGED <<dirExists, nextKey, created>>
    /\ ServerRest

NextServer ==
    \/ \E p \in Procs, op \in ServerTools, name \in ServerNames : Invoke(p, op, name)
    \/ \E p \in Procs, ok \in BOOLEAN : Resume(p, ok)
    \/ \E p \in Procs, ok \in BOOLEAN, image \in {"", "missing"} :
            CreateAfterBalance(p, ok, image)
    \/ \E p \in Procs, ok \in BOOLEAN : CreateAfterSdk(p, ok)

SpecServer == Init /\ [][NextServer]_vars

----------------------------------------------------------------------------
\* The claims

Accounts == last.ret.accounts

\* the name of the account a key file belongs to: the file name without its
\* extension
AccountNameOf(file) == SubSeq(file, 1, Len(file) - 1)

HoldsJson(name) == \E i \in 1..Len(name) : name[i] = JSON_EXT

\* C1: two calls of getOrCreateKeypair in a row with the same name end the
\* same way: when either returns an Identity, both do, with the same public key.
IdempotentIdentity ==
    (last.op = "getOrCreateKeypair" /\ last.again) =>
        /\ last.ret.threw = last.before.threw
        /\ last.ret.publicKey = last.before.publicKey

\* the first call generated the key and wrote the file, the second loaded it
IdempotentIdentityWitness ==
    /\ last.op = "getOrCreateKeypair" /\ last.again
    /\ ~last.ret.threw /\ last.found = "valid"
    /\ <<last.name, last.ret.publicKey>> \in created

\* C2, as claimed: when two calls of getOrCreateKeypair for one name that
\* had no file at either call have both ended, both have returned the same
\* public key, and the key file of the name holds the key of that Identity.
OneGeneratedIdentitySurvives ==
    \A p, q \in Procs :
        (/\ p /= q /\ At(p, "done") /\ At(q, "done")
         /\ procs[p].name = procs[q].name /\ procs[p].fresh /\ procs[q].fresh
         /\ writable) =>
            /\ ~procs[p].ret.threw /\ ~procs[q].ret.threw
            /\ procs[p].ret.publicKey = procs[q].ret.publicKey
            /\ Found(dir, KeypairPath(procs[p].name)) = "valid"
            /\ Base58(LoadKeypair(ReadFileSync(dir, KeypairPath(procs[p].name))).publicKey)
                    = procs[p].ret.publicKey

\* C3: no step of any operation changes or removes a key file: every .json
\* file of the keys folder is there after the step, with the same contents.
KeyFilesNeverChange ==
    [][\A i \in 1..Len(dir) :
            EndsWithJson(dir[i].file) => \E j \in 1..Len(dir') : dir'[j] = dir[i]]_vars

\* createToken has written a mint key file next to a generated account key
\* file, which still holds its key, and next to a file that does not load
KeyFilesNeverChangeWitness ==
    /\ last.op = "createToken" /\ last.ret.success
    /\ \E c \in created :
            /\ Found(dir, KeypairPath(c[1])) = "valid"
            /\ Base58(LoadKeypair(ReadFileSync(dir, KeypairPath(c[1]))).publicKey) = c[2]
    /\ \E i \in 1..Len(dir) : EndsWithJson(dir[i].file) /\ LoadThrows(dir[i].data)

\* C4: a key file that does not load makes getOrCreateKeypair throw: no
\* Identity is returned (a trade that called it returns success=false and
\* makes no SDK call), and the file is not replaced by a key that loads.
CorruptKeyFileFails ==
    /\ (last.op = "getOrCreateKeypair" /\ last.found = "corrupt") =>
            /\ last.ret.threw /\ last.ret.publicKey = ""
            /\ Found(dir, KeypairPath(last.name)) = "corrupt"
    /\ (last.op \in {"buyToken", "sellToken", "createToken"} /\ last.found = "corrupt") =>
            /\ ~last.ret.success /\ last.ret.error = KEYPAIR_ERROR /\ ~last.sdkCalled
            /\ Found(dir, KeypairPath(last.name)) = "corrupt"

CorruptKeyFileFailsWitness ==
    /\ last.op = "getOrCreateKeypair" /\ last.found = "corrupt" /\ last.ret.threw
    /\ nextKey > 1

MintFilesNeverListed ==
    last.op = "listAccounts" =>
        \A i \in 1..Len(Accounts) :
            /\ ~StartsWithMint(Accounts[i].file)
            /\ EndsWithJson(Accounts[i].file)
            /\ ExistsSync(dir, Accounts[i].file)

\* the folder holds a mint key file that createToken wrote, and accounts
MintFilesNeverListedWitness ==
    /\ last.op = "listAccounts" /\ Len(Accounts) > 0
    /\ \E i \in 1..Len(dir) :
            /\ StartsWithMint(dir[i].file) /\ Len(dir[i].file) = Len(MintPath(NoKeypair))
            /\ dir[i].data.v[1] \in 1..MaxKeys

\* C7, as claimed: on a keys folder that is there, listAccounts succeeds with
\* one entry per candidate file, in order: the entry of a file that does not
\* load carries the name of the file's account and the marker, the entry of
\* a file that loads carries its public key.
CorruptFilesAreMarked ==
    (last.op = "listAccounts" /\ last.folderExisted) =>
        LET files == SelectSeq(ReaddirSync(dir), IsCandidate)
        IN  /\ last.ret.success
            /\ Len(Accounts) = Len(files)
            /\ \A i \in 1..Len(files) :
                    /\ LoadThrows(ReadFileSync(dir, files[i])) =>
                            Accounts[i].name = AccountNameOf(files[i])
                    /\ Accounts[i].publicKey =
                        IF LoadThrows(ReadFileSync(dir, files[i]))
                        THEN "Error reading keypair"
                        ELSE Base58(LoadKeypair(ReadFileSync(dir, files[i])).publicKey)

\* C7 without the names (a lemma: what of the claim the code does keep)
CorruptFilesAreMarkedApartFromNames ==
    (last.op = "listAccounts" /\ last.folderExisted) =>
        LET files == SelectSeq(ReaddirSync(dir), IsCandidate)
        IN  /\ last.ret.success
            /\ Len(Accounts) = Len(files)
            /\ \A i \in 1..Len(files) :
                    /\ Accounts[i].file = files[i]
                    /\ ~HoldsJson(AccountNameOf(files[i])) =>
                            Accounts[i].name = AccountNameOf(files[i])
                    /\ Accounts[i].publicKey =
                        IF LoadThrows(ReadFileSync(dir, files[i]))
                        THEN "Error reading keypair"
                        ELSE Base58(LoadKeypair(ReadFileSync(dir, files[i])).publicKey)

\* C8, as claimed: on a missing or empty keys folder listAccounts returns
\* success=true, no error and no accounts, and the folder is there afterwards.
EmptyFolderListsNothing ==
    (last.op = "listAccounts" /\ dir = <<>>) =>
        /\ last.ret.success /\ last.ret.error = ""
        /\ Accounts = <<>>
        /\ dirExists

\* C8, amended: so it is when the folder is there or can be created; when it
\* is missing and cannot be created the result is success=false with the
\* error "Error creating keys folder" and no accounts, and it stays missing.
EmptyFolderListsNothingIfCreatable ==
    (last.op = "listAccounts" /\ dir = <<>>) =>
        /\ Accounts = <<>>
        /\ (last.folderExisted \/ writable) =>
                last.ret.success /\ last.ret.error = "" /\ dirExists
        /\ (~last.folderExisted /\ ~writable) =>
                /\ ~last.ret.success /\ ~dirExists
                /\ last.ret.error = "Error creating keys folder"

\* the folder was missing and listAccounts created it
EmptyFolderListsNothingIfCreatableWitness ==
    /\ last.op = "listAccounts" /\ ~last.folderExisted
    /\ last.ret.success /\ Accounts = <<>> /\ dirExists

\* C9: with no token account for the mint, getSPLBalance returns null and not
\* 0, and getAccountBalance writes "No token account found"; for an account
\* that holds zero tokens getAccountBalance writes the number 0.
AbsentIsNotZero ==
    /\ (last.op = "getSPLBalance" /\ ~last.query.threw /\ Len(last.query.value) = 0) =>
            last.ret = Null /\ last.ret /= Num(0)
    /\ (last.op = "getAccountBalance" /\ last.ret.error = "" /\ last.tokenAddress /= ""
            /\ ~last.query.threw) =>
            /\ Len(last.query.value) = 0 =>
                    last.balance = Null /\ last.ret.token = "No token account found"
            /\ (Len(last.query.value) > 0 /\ last.query.value[1] = 0) =>
                    last.balance = Num(0) /\ last.ret.token = "0"

AbsentIsNotZeroWitness ==
    /\ last.op = "getAccountBalance" /\ last.ret.error = "" /\ last.tokenAddress /= ""
    /\ ~last.query.threw /\ Len(last.query.value) > 0 /\ last.query.value[1] = 0
    /\ last.ret.token = "0"

\* C10: with one token account or more, getSPLBalance returns the amount of
\* the first account of the answer, whatever the others hold.
FirstAccountAmount ==
    /\ (last.op = "getSPLBalance" /\ ~last.query.threw /\ Len(last.query.value) >= 1) =>
            last.ret = Num(last.query.value[1])
    /\ (last.op = "getAccountBalance" /\ last.ret.error = "" /\ last.tokenAddress /= ""
            /\ ~last.query.threw /\ Len(last.query.value) >= 1) =>
            last.balance = Num(last.query.value[1])

\* two accounts, the second not empty: the sum is not the first amount
FirstAccountAmountWitness ==
    /\ last.op = "getSPLBalance" /\ ~last.query.threw
    /\ Len(last.query.value) = 2 /\ last.query.value[2] > 0
    /\ last.ret = Num(last.query.value[1])

\* C11: a query that fails inside getSPLBalance gives null, the value an
\* owner without token account gets, whatever the owner holds; the caller
\* gets a result and no exception (getAccountBalance goes on to its report).
QueryFailureIsAbsent ==
    /\ (last.op = "getSPLBalance" /\ last.query.threw) =>
            /\ last.ret = Null
            /\ last.ret = GetSPLBalance(Query(FALSE, <<>>))
    /\ (last.op = "getAccountBalance" /\ last.tokenAddress /= "" /\ last.ret.error = ""
            /\ last.query.threw) =>
            last.balance = Null /\ last.ret.token = "No token account found"

\* the owner holds tokens, and the query for them failed
QueryFailureIsAbsentWitness ==
    /\ last.op = "getSPLBalance" /\ last.query.threw
    /\ Held(last.query) > 0 /\ last.ret = Null

\* C12: when buyToken or createToken has read a SOL balance below the amount
\* plus the fee reserve, it returns success=false with the insufficient
\* balance error and the SDK's trade call is not made.
InsufficientFundsStopBeforeSdk ==
    (/\ last.op \in {"buyToken", "createToken"}
     /\ ~last.sol.threw /\ ~IsNaN(last.amount)
     /\ last.sol.balance < last.amount +
            (IF last.op = "buyToken" THEN BUY_FEE_RESERVE ELSE CREATE_FEE_RESERVE)) =>
        /\ ~last.ret.success
        /\ last.ret.error = "Insufficient SOL balance"
        /\ ~last.sdkCalled

\* the balance covers the amount but not the reserve
InsufficientFundsStopBeforeSdkWitness ==
    /\ last.op = "buyToken" /\ ~last.sol.threw
    /\ last.amount > 0 /\ last.sol.balance = last.amount
    /\ last.ret.error = "Insufficient SOL balance" /\ ~last.sdkCalled

Operations ==
    {"getTokenInfo", "buyToken", "sellToken", "createToken", "listAccounts",
     "getAccountBalance"}

Trades == {"buyToken", "sellToken", "createToken"}

\* the function was called (the request was not turned down before)
Called == last.op \in Operations /\ (last.op \in Trades => last.stage /= "rejected")

\* C13, as claimed: every operation that is called returns an object with
\* success, and with an error text when success is false; it raises nothing
\* but the error of the missing configuration.
PlainResultObjects ==
    Called =>
        \/ /\ Returns(last) = "raised"
           /\ last.ret.error = ENV_ERROR
        \/ /\ Returns(last) = "result"
           /\ last.ret.success \in BOOLEAN
           /\ ~last.ret.success =>
                    last.ret.error /= "" /\ last.ret.error /= SDK_ERROR_OBJECT

\* C13 for the operations that keep to it (a lemma): buyToken, sellToken and
\* listAccounts return such an object whatever fails, the missing
\* configuration included, and createToken does but for the error's type.
PlainResultObjectsOfTrades ==
    (Called /\ last.op \in Trades \cup {"listAccounts"}) =>
        /\ Returns(last) = "result"
        /\ last.ret.success \in BOOLEAN
        /\ ~last.ret.success =>
                /\ last.ret.error /= ""
                /\ last.ret.error = SDK_ERROR_OBJECT =>
                        last.op = "createToken" /\ last.sdk = "failObject"

\* the request names a malformed token address, or a negative or NaN amount
Invalid ==
    /\ last.op \in Trades
    /\ \/ IsNaN(last.amount)
       \/ last.amount < 0
       \/ last.op \in {"buyToken", "sellToken"} /\ PublicKeyThrows(last.arg)

\* C14, as claimed: by the script's main or by a direct call, a buy, sell or
\* create request with a malformed address or a negative or NaN amount ends
\* in an error and the SDK's trade call is not made.
InvalidRequestsStopBeforeSdk ==
    Invalid => ~last.ret.success /\ ~last.sdkCalled

\* C14 for the scripts' mains and for the two inputs every entry stops (a
\* lemma): a main turns down a negative or NaN amount before the call, and
\* a malformed address or a NaN amount ends in an exception before the
\* SDK's trade call; only the negative amount of a direct call goes on.
InvalidRequestsStopBeforeSdkAtMain ==
    (Invalid /\ (last.entry = "main" \/ IsNaN(last.amount)
                    \/ (last.op \in {"buyToken", "sellToken"} /\ PublicKeyThrows(last.arg)))) =>
        ~last.ret.success /\ ~last.sdkCalled

\* sellToken made the SDK's sell call; balance is the token balance it read
SellReachedSdk == last.op = "sellToken" /\ last.sdkCalled

SellBalanceRead == GetSPLBalance(last.q1).n

\* C15, as claimed: the amount sellToken submits to the SDK is above 0 and at
\* most the token balance read before; sellAmount 0 submits the whole
\* balance, any other sellAmount the smaller of sellAmount and the balance.
SellSubmitsWithinBalance ==
    SellReachedSdk =>
        /\ last.submitted > 0
        /\ last.submitted <= SellBalanceRead
        /\ last.amount = 0 => last.submitted = SellBalanceRead
        /\ last.amount /= 0 =>
                last.submitted = (IF last.amount < SellBalanceRead THEN last.amount
                                  ELSE SellBalanceRead)

\* C15 for the amounts a main lets through (a lemma): with sellAmount >= 0
\* the amount submitted is above 0 and within the balance.
SellSubmitsWithinBalanceFromZero ==
    (SellReachedSdk /\ last.amount >= 0) =>
        /\ last.submitted > 0
        /\ last.submitted <= SellBalanceRead
        /\ last.amount = 0 => last.submitted = SellBalanceRead
        /\ last.entry = "main" => last.amount >= MIN_SELL_AMOUNT

\* sellToken got as far as reading the token balance
SellReadBalance ==
    /\ last.op = "sellToken"
    /\ last.stage \notin {"rejected", "env", "mkdir", "keypair", "address"}

\* C16: when the token balance sellToken reads is absent or zero, and also
\* when the query for it failed, sellToken returns success=false with "No
\* tokens to sell" and the SDK's sell call is not made.
NothingToSellStopsBeforeSdk ==
    (/\ SellReadBalance
     /\ \/ last.q1.threw
        \/ Len(last.q1.value) = 0
        \/ last.q1.value[1] = 0) =>
        /\ ~last.ret.success
        /\ last.ret.error = "No tokens to sell"
        /\ ~last.sdkCalled

\* the account holds tokens and the query for them failed: nothing is sold
NothingToSellStopsBeforeSdkWitness ==
    /\ SellReadBalance /\ last.q1.threw /\ Held(last.q1) > 0
    /\ last.ret.error = "No tokens to sell" /\ ~last.sdkCalled

BuySucceeded == last.op = "buyToken" /\ last.ret.success

\* C17, as claimed: a successful buyToken reports as newBalance what the
\* owner holds after the trade, and as tokensPurchased the increase of the
\* holding by the trade, which is not negative; an owner without token
\* account before the trade held 0.
BuyAccountingIsConsistent ==
    BuySucceeded =>
        /\ last.ret.newBalance = Held(last.q2)
        /\ last.ret.tokensPurchased = Held(last.q2) - Held(last.q1)
        /\ last.ret.tokensPurchased >= 0

\* C17 when both balance queries answer (a lemma)
BuyAccountingIsConsistentIfQueriesAnswer ==
    (BuySucceeded /\ ~last.q1.threw /\ ~last.q2.threw) =>
        /\ last.ret.newBalance = Held(last.q2)
        /\ last.ret.tokensPurchased = Held(last.q2) - Held(last.q1)
        /\ last.ret.tokensPurchased >= 0

\* the files of the second folder that the first does not hold
NewFiles(d1, d2) ==
    {d2[i].file : i \in 1..Len(d2)} \ {d1[i].file : i \in 1..Len(d1)}

\* C18: createToken writes the mint key file only after the SDK has reported
\* success. A createToken that fails (funds check, SDK failure, exception
\* before the write) creates no file but the account's key file; a
\* createToken that succeeds names a token address whose mint key file is in
\* the folder, written by this call.
MintKeyFileOnlyAfterSuccess ==
    [][last'.op = "createToken" =>
            IF last'.ret.success
            THEN /\ ExistsSync(dir', <<MINT_PREFIX, last'.ret.tokenAddress, JSON_EXT>>)
                 /\ <<MINT_PREFIX, last'.ret.tokenAddress, JSON_EXT>> \in NewFiles(dir, dir')
            ELSE NewFiles(dir, dir') \subseteq {KeypairPath(last'.name)}]_vars

\* a token was created, and its mint key file is in the folder
MintKeyFileOnlyAfterSuccessWitness ==
    /\ last.op = "createToken" /\ last.ret.success
    /\ ExistsSync(dir, <<MINT_PREFIX, last.ret.tokenAddress, JSON_EXT>>)

\* C19: listAccounts on an existing keys folder creates, modifies and deletes
\* no file, and a listAccounts that follows a listAccounts with nothing done
\* to the folder in between returns the same entries in the same order.
ListAccountsIsStable ==
    [][last'.op = "listAccounts" =>
            /\ dirExists => dirExists' /\ dir' = dir
            /\ last.op = "listAccounts" => last'.ret.accounts = last.ret.accounts]_vars

\* a second listing in a row of a folder with two entries or more, one of
\* them of a file that does not load
ListAccountsIsStableWitness ==
    /\ last.op = "listAccounts" /\ last.again
    /\ Len(last.ret.accounts) >= 2
    /\ \E i \in 1..Len(last.ret.accounts) : last.ret.accounts[i].publicKey = "Error reading keypair"

\* the invocation in slot p got an Identity from getOrCreateKeypair
GotIdentity(p) == procs[p].pc /= "idle" /\ ~procs[p].ret.threw

\* C20: for tool invocations of one server process, interleaved at their
\* awaits only, at most one Identity is generated for a name and the
\* invocations that use a name get the same public key.
OneIdentityPerNameInServer ==
    /\ \A c1, c2 \in created : c1[1] = c2[1] => c1 = c2
    /\ \A p, q \in Procs :
            (GotIdentity(p) /\ GotIdentity(q) /\ procs[p].name = procs[q].name) =>
                procs[p].ret.publicKey = procs[q].ret.publicKey

\* two invocations for one new name are waiting at the same time: the first
\* generated the Identity, the second loaded it
OneIdentityPerNameInServerWitness ==
    /\ Running(1) /\ Running(2)
    /\ procs[1].name = procs[2].name
    /\ procs[1].fresh /\ ~procs[2].fresh
    /\ procs[1].ret.publicKey = procs[2].ret.publicKey
    /\ procs[1].ret.publicKey /= ""

\* the name has no key file in the keys folder
Unknown(name) == ~(dirExists /\ ExistsSync(dir, KeypairPath(name)))

\* after the step the name has a key file that loads, generated by the step
PersistedIdentity(name) ==
    /\ dirExists'
    /\ ExistsSync(dir', KeypairPath(name))
    /\ ~LoadThrows(ReadFileSync(dir', KeypairPath(name)))
    /\ <<name, Base58(LoadKeypair(ReadFileSync(dir', KeypairPath(name))).publicKey)>>
            \in created' \ created

\* C21, as claimed: getAccountBalance for a name without key file returns the
\* "Account file not found" error text and creates neither the keys folder
\* nor a file; buyToken, sellToken and createToken called with a name
\* without key file create and persist an Identity, whatever they return.
BalanceReadsAndTradesCreate ==
    [][/\ (last'.op = "getAccountBalance" /\ Unknown(last'.name)) =>
            /\ last'.ret.error = "Account file not found"
            /\ dirExists' = dirExists /\ dir' = dir
       /\ (last'.op \in Trades /\ last'.stage /= "rejected" /\ Unknown(last'.name)) =>
            PersistedIdentity(last'.name)]_vars

\* C21, amended: getAccountBalance never changes the key store, and with
\* HELIUS_RPC_URL set it returns the "Account file not found" error text for
\* a name without key file; buyToken, sellToken and createToken called with
\* HELIUS_RPC_URL set, a keys folder that can be written and a name without
\* key file create and persist an Identity, whatever they return.
BalanceReadsAndTradesCreateIfConfigured ==
    [][/\ last'.op = "getAccountBalance" =>
            /\ dirExists' = dirExists /\ dir' = dir /\ nextKey' = nextKey
            /\ (Unknown(last'.name) /\ last'.rpcSet) =>
                    last'.ret.error = "Account file not found"
       /\ (/\ last'.op \in Trades /\ last'.stage /= "rejected"
           /\ Unknown(last'.name) /\ last'.rpcSet /\ writable) =>
            PersistedIdentity(last'.name)]_vars

\* a buy for a new name stopped at the funds check, and the new Identity's
\* key file is in the folder
BalanceReadsAndTradesCreateIfConfiguredWitness ==
    /\ last.op = "buyToken" /\ ~last.ret.success
    /\ last.ret.error = "Insufficient SOL balance"
    /\ last.found = "absent"
    /\ ExistsSync(dir, KeypairPath(last.name))
    /\ \E c \in created : c[1] = last.name

====
